---- MODULE Spec2Model ----
(***************************************************************************)
(* Model of flashcards-rs (src/src/main.rs): the deck engine               *)
(* (FlashCardEngine), the line store (read_nonempty_lines, write_atomic)   *)
(* and the screen state machine (handle, run_app).                         *)
(*                                                                         *)
(* Strings are sequences of one-character strings.  A file is the flat     *)
(* sequence of its characters, lines ended by NL.  Card indices, order     *)
(* entries, current, cursor and the selection indices are 0-based as in    *)
(* the source; sequences are 1-based, so card i is questions[i + 1].       *)
(***************************************************************************)
EXTENDS Naturals, Sequences, FiniteSets, TLC

\* ------------------------------------------------------------------ bounds
\* 'n' on card-list is taken only while the deck has fewer cards than this.
MaxCards == 2
\* A character is typed only while the buffer is shorter than this.
MaxStr == 1
\* Down on review is taken only while the scroll offset is below this.
MaxScroll == 1
\* A topic is created only while fewer topics than this are listed.
MaxTopics == 3
\* The decks studied from start to done have at most this many cards.
MaxDeck == 3

\* ------------------------------------------------------------- characters
NL == "\n"
\* Characters a key event can carry in this model.
Chars == {"a", " "}
\* char::is_whitespace for the characters that occur here.
Whitespace == {" ", "\r", "\t"}

\* ----------------------------------------------------------- line store
RECURSIVE TrimStart(_)
TrimStart(s) ==
  IF s # <<>> /\ Head(s) \in Whitespace THEN TrimStart(Tail(s)) ELSE s

RECURSIVE TrimEnd(_)
TrimEnd(s) ==
  IF s # <<>> /\ s[Len(s)] \in Whitespace
  THEN TrimEnd(SubSeq(s, 1, Len(s) - 1))
  ELSE s

\* str::trim
Trim(s) == TrimEnd(TrimStart(s))

\* BufRead::lines: split at NL; text after the last NL is a line only if it
\* is not empty.
RECURSIVE SplitLines(_, _)
SplitLines(f, cur) ==
  IF f = <<>> THEN (IF cur = <<>> THEN <<>> ELSE <<cur>>)
  ELSE IF Head(f) = NL THEN <<cur>> \o SplitLines(Tail(f), <<>>)
  ELSE SplitLines(Tail(f), Append(cur, Head(f)))

RECURSIVE DropEmpty(_)
DropEmpty(ls) ==
  IF ls = <<>> THEN <<>>
  ELSE IF Head(ls) = <<>> THEN DropEmpty(Tail(ls))
  ELSE <<Head(ls)>> \o DropEmpty(Tail(ls))

TrimAll(ls) == [i \in 1..Len(ls) |-> Trim(ls[i])]

\* read_nonempty_lines: the lines of the file, trimmed, the empty ones dropped.
ReadNonemptyLines(f) == DropEmpty(TrimAll(SplitLines(f, <<>>)))

\* The text write_atomic writes to the temporary file: writeln! of each line.
RECURSIVE FileText(_)
FileText(ls) ==
  IF ls = <<>> THEN <<>> ELSE Head(ls) \o <<NL>> \o FileText(Tail(ls))

\* The files of one topic directory that write_atomic touches.
FileNames == {"questions.txt", "answers.txt", "questions.tmp", "answers.tmp"}

\* A name with no file behind it, and a file with its content.
Absent == [exists |-> FALSE]

File(text) == [exists |-> TRUE, text |-> text]

\* Mutant of WithExtensionTmp: the temporary path is the destination itself.
WithExtensionSame(path) == path

\* path.with_extension("tmp")
WithExtensionTmp(path) ==
  CASE path = "questions.txt" -> "questions.tmp"
    [] path = "answers.txt" -> "answers.tmp"
    [] OTHER -> path

\* fs::rename(from, to) on the files fs: to is replaced in one step.
Rename(fs, from, to) ==
  IF from = to THEN fs ELSE [fs EXCEPT ![to] = fs[from], ![from] = Absent]

NoWrite == [pc |-> "idle"]

\* ------------------------------------------------------------ deck engine
NoEng == [loaded |-> FALSE]

EmptyMap == [k \in {} |-> <<>>]

\* (0..n).collect()
Identity(n) == [i \in 1..n |-> i - 1]

\* The outcomes of order.shuffle(rng): every arrangement of 0..n-1.
Shuffles(n) ==
  {p \in [1..n -> 0..(n - 1)] : \A i, j \in 1..n : p[i] = p[j] => i = j}

\* Mutant of FromFiles: the count check is left out.
FromFilesUnchecked(topic, qf, af) ==
  [ok |-> TRUE,
   error |-> [kind |-> "none"],
   eng |-> [loaded |-> TRUE, topic |-> topic,
            questions |-> ReadNonemptyLines(qf), answers |-> ReadNonemptyLines(af),
            order |-> Identity(Len(ReadNonemptyLines(qf))), current |-> 0,
            random |-> FALSE, responses |-> EmptyMap, seen |-> {}]]

\* FlashCardEngine::from_files once both files are read: an engine, or the
\* mismatch error with both counts.
FromFiles(topic, qf, af) ==
  LET questions == ReadNonemptyLines(qf)
      answers == ReadNonemptyLines(af)
  IN IF Len(questions) # Len(answers)
     THEN [ok |-> FALSE,
           error |-> [kind |-> "Mismatched counts",
                      questions |-> Len(questions), answers |-> Len(answers)]]
     ELSE [ok |-> TRUE,
           eng |-> [loaded |-> TRUE, topic |-> topic,
                    questions |-> questions, answers |-> answers,
                    order |-> Identity(Len(questions)), current |-> 0,
                    random |-> FALSE, responses |-> EmptyMap, seen |-> {}]]

\* Mutant of SetRandom: current is not reset.
SetRandomKeepCurrent(e, mode, p) ==
  [e EXCEPT !.random = mode,
            !.order = IF mode THEN p ELSE Identity(Len(e.questions))]

\* set_random with the shuffle's outcome p (used only when mode is TRUE).
SetRandom(e, mode, p) ==
  [e EXCEPT !.random = mode,
            !.order = IF mode THEN p ELSE Identity(Len(e.questions)),
            !.current = 0]

\* Mutant of CardIdx: the order position is taken for the deck index.
CardIdxPosition(e) == e.current

\* current_card: is there one, and its deck index.
HasCard(e) == e.current < Len(e.order)
CardIdx(e) == e.order[e.current + 1]

\* record
Record(e, idx, resp) ==
  [e EXCEPT !.responses = [k \in (DOMAIN e.responses) \cup {idx} |->
                             IF k = idx THEN resp ELSE e.responses[k]],
            !.seen = e.seen \cup {idx}]

\* Mutant of EngNext: the cursor wraps to the first card after the last one.
EngNextWrap(e) ==
  [e EXCEPT !.current = IF e.current + 1 >= Len(e.order) THEN 0 ELSE e.current + 1]

\* next
EngNext(e) == [e EXCEPT !.current = e.current + 1]

\* Mutant of EngDone: off by one.
EngDoneLate(e) == e.current > Len(e.order)

\* done
EngDone(e) == e.current >= Len(e.order)

\* progress, as the fraction current / max(len(order), 1)
ProgressNum(e) == e.current
ProgressDen(e) == IF Len(e.order) > 1 THEN Len(e.order) ELSE 1

\* ------------------------------------------------------------ text buffer
InsertAt(buf, cur, c) == SubSeq(buf, 1, cur) \o <<c>> \o SubSeq(buf, cur + 1, Len(buf))

\* String::remove(i), i 0-based and in range
RemoveAt(buf, i) == SubSeq(buf, 1, i) \o SubSeq(buf, i + 2, Len(buf))

TextKeys ==
  {[code |-> "Char", ch |-> c] : c \in Chars}
    \cup {[code |-> k, ch |-> ""] : k \in {"Backspace", "Delete", "Left", "Right"}}

\* The editing arms shared by topic-create, ask, edit-question and edit-answer:
\* the buffer and cursor after the key, or a panic (String::insert and
\* String::remove panic on an index beyond the buffer).
TextEdit(buf, cur, key) ==
  CASE key.code = "Char" ->
         IF cur > Len(buf) THEN [panic |-> TRUE, buf |-> buf, cursor |-> cur]
         ELSE [panic |-> FALSE, buf |-> InsertAt(buf, cur, key.ch), cursor |-> cur + 1]
    [] key.code = "Backspace" ->
         IF cur = 0 THEN [panic |-> FALSE, buf |-> buf, cursor |-> cur]
         ELSE IF cur - 1 >= Len(buf) THEN [panic |-> TRUE, buf |-> buf, cursor |-> cur]
         ELSE [panic |-> FALSE, buf |-> RemoveAt(buf, cur - 1), cursor |-> cur - 1]
    [] key.code = "Delete" ->
         IF cur < Len(buf) THEN [panic |-> FALSE, buf |-> RemoveAt(buf, cur), cursor |-> cur]
         ELSE [panic |-> FALSE, buf |-> buf, cursor |-> cur]
    [] key.code = "Left" ->
         [panic |-> FALSE, buf |-> buf, cursor |-> IF cur = 0 THEN 0 ELSE cur - 1]
    [] key.code = "Right" ->
         [panic |-> FALSE, buf |-> buf,
          cursor |-> IF cur + 1 < Len(buf) THEN cur + 1 ELSE Len(buf)]

\* A Char key is modelled only while the buffer is below the bound.
TextKeyInBound(buf, key) == key.code = "Char" => Len(buf) < MaxStr

\* ------------------------------------------------------------------ topics
\* Byte values of the characters that occur in topic names.
Code(c) ==
  CASE c = " " -> 32 [] c = "a" -> 97 [] c = "m" -> 109 [] c = "t" -> 116
    [] OTHER -> 0

\* Ord for String: lexicographic by byte.
RECURSIVE StrLess(_, _)
StrLess(s, t) ==
  IF t = <<>> THEN FALSE
  ELSE IF s = <<>> THEN TRUE
  ELSE IF Code(Head(s)) # Code(Head(t)) THEN Code(Head(s)) < Code(Head(t))
  ELSE StrLess(Tail(s), Tail(t))

RECURSIVE InsertSorted(_, _)
InsertSorted(ss, x) ==
  IF ss = <<>> THEN <<x>>
  ELSE IF StrLess(x, Head(ss)) THEN <<x>> \o ss
  ELSE <<Head(ss)>> \o InsertSorted(Tail(ss), x)

\* Vec::sort
RECURSIVE SortStrings(_)
SortStrings(ss) ==
  IF ss = <<>> THEN <<>> ELSE InsertSorted(SortStrings(Tail(ss)), Head(ss))

\* A listing of a set of names in some order (read_dir's order is unspecified).
Listing(S) ==
  CHOOSE l \in [1..Cardinality(S) -> S] : \A i, j \in 1..Cardinality(S) : l[i] = l[j] => i = j

\* App::load_topics: the directory names, sorted.
LoadTopics(d) == SortStrings(Listing(DOMAIN d))

EmptyFile == <<>>

\* App::load_eng up to the call of from_files: the topic's directory and its
\* two files exist afterwards, created empty if missing.
EnsureTopic(d, topic) ==
  IF topic \in DOMAIN d THEN d
  ELSE [t \in (DOMAIN d) \cup {topic} |->
          IF t = topic THEN [q |-> EmptyFile, a |-> EmptyFile] ELSE d[t]]

\* FlashCardEngine::persist_edits, both writes done.
PersistEdits(d, e) ==
  [d EXCEPT ![e.topic] = [q |-> FileText(e.questions), a |-> FileText(e.answers)]]

\* persist_edits failing at its second write_atomic: only the questions file
\* has been replaced.
PersistQuestionsOnly(d, e) ==
  [d EXCEPT ![e.topic] = [q |-> FileText(e.questions), a |-> d[e.topic].a]]

\* ------------------------------------------------------------------- state
VARIABLES
  screen, prev_screen, input, cursor, review_scroll, topics, selected_topic,
  topic_input, current_topic, in_edit_mode, selected_card,  \* App
  eng,        \* App::eng: NoEng or the loaded FlashCardEngine
  disk,       \* topics/<name>/questions.txt and answers.txt, by topic name
  status,     \* "running", or how the process ended: "quit", "error", "panic"
  error,      \* the error run_app returned, if any
  saved,      \* main wrote the session transcript on exit
  studying,   \* history: set_random has been called on the loaded engine
  wr          \* the write_atomic call followed step by step, NoWrite if none

vars ==
  <<screen, prev_screen, input, cursor, review_scroll, topics, selected_topic,
    topic_input, current_topic, in_edit_mode, selected_card, eng, disk, status,
    error, saved, studying, wr>>

Screens ==
  {"Mode", "Ask", "Reveal", "Review", "EditQuestion", "EditAnswer", "Done",
   "TopicSelect", "TopicCreate", "MainMenu", "CardList", "ConfirmQuit"}

NoError == [kind |-> "none"]

S(str) == <<str>>

\* The topics directory at startup: topic "t" holds two cards (its questions
\* file has a blank line and a padded line), topic "m" holds three questions
\* and two answers.
InitDisk ==
  (S("t") :> [q |-> <<"a", NL, NL, " ", "b", NL>>, a |-> <<"c", NL, "d", NL>>])
    @@ (S("m") :> [q |-> <<"a", NL, "b", NL, "a", NL>>, a |-> <<"c", NL, "d", NL>>])

\* main up to run_app: App::new, then load_topics, on the topics directory d.
StartUp(d) ==
  /\ screen = "TopicSelect"
  /\ prev_screen = "None"
  /\ input = <<>>
  /\ cursor = 0
  /\ review_scroll = 0
  /\ disk = d
  /\ topics = LoadTopics(d)
  /\ selected_topic = 0
  /\ topic_input = <<>>
  /\ current_topic = {}
  /\ in_edit_mode = FALSE
  /\ selected_card = 0
  /\ eng = NoEng
  /\ status = "running"
  /\ error = NoError
  /\ saved = FALSE
  /\ studying = FALSE

Init == StartUp(InitDisk) /\ wr = NoWrite

\* ------------------------------------------------------------ the loop
Running == status = "running"

\* ui() panics when draw_review indexes questions by a response key that is
\* not an index of the deck.
DrawPanics ==
  /\ screen = "Review"
  /\ eng.loaded
  /\ \E i \in DOMAIN eng.responses : i >= Len(eng.questions)

\* run_app's next iteration draws the frame before it polls again.
Redraw == status' = IF DrawPanics' THEN "panic" ELSE "running"

\* main, once run_app has returned: the transcript is written if the screen
\* is done and there is a response.
SavesSession == screen = "Done" /\ eng.loaded /\ DOMAIN eng.responses # {}

\* A panic unwinds out of run_app: nothing else changes.
Panic ==
  /\ status' = "panic"
  /\ UNCHANGED <<screen, prev_screen, input, cursor, review_scroll, topics,
                 selected_topic, topic_input, current_topic, in_edit_mode,
                 selected_card, eng, disk, error, saved, studying>>

\* handle returned Err(e): run_app returns it and main exits.
Fails(e) ==
  /\ status' = "error"
  /\ error' = e
  /\ saved' = SavesSession'

\* App::load_eng: the engine is replaced only if from_files succeeds.
LoadEng(topic) ==
  LET d == EnsureTopic(disk, topic)
      r == FromFiles(topic, d[topic].q, d[topic].a)
  IN /\ disk' = d
     /\ IF r.ok
        THEN /\ eng' = r.eng
             /\ current_topic' = {topic}
             /\ studying' = FALSE
        ELSE UNCHANGED <<eng, current_topic, studying>>

LoadOk(topic) ==
  LET d == EnsureTopic(disk, topic) IN FromFiles(topic, d[topic].q, d[topic].a).ok

LoadError(topic) ==
  LET d == EnsureTopic(disk, topic) IN FromFiles(topic, d[topic].q, d[topic].a).error

\* -------------------------------------------------- handle: Ctrl+Q, mouse
\* Mutant of CtrlQ: the review scroll offset is reset.
CtrlQResetsScroll ==
  /\ Running
  /\ UNCHANGED wr
  /\ prev_screen' = screen
  /\ screen' = "ConfirmQuit"
  /\ review_scroll' = 0
  /\ UNCHANGED <<input, cursor, topics, selected_topic, topic_input,
                 current_topic, in_edit_mode, selected_card, eng, disk, error,
                 saved, studying>>
  /\ Redraw

\* Ctrl+Q: the screen is saved and replaced; the match then runs the
\* confirm-quit arm on 'q', which does nothing.
CtrlQ ==
  /\ Running
  /\ UNCHANGED wr
  /\ prev_screen' = screen
  /\ screen' = "ConfirmQuit"
  /\ UNCHANGED <<input, cursor, review_scroll, topics, selected_topic, topic_input,
                 current_topic, in_edit_mode, selected_card, eng, disk, error,
                 saved, studying>>
  /\ Redraw

\* run_app: a left click inside the progress gauge.
MouseClick ==
  /\ Running
  /\ UNCHANGED wr
  /\ screen' = "Review"
  /\ UNCHANGED <<prev_screen, input, cursor, review_scroll, topics, selected_topic,
                 topic_input, current_topic, in_edit_mode, selected_card, eng, disk,
                 error, saved, studying>>
  /\ Redraw

\* ------------------------------------------------------ Screen::TopicSelect
TopicSelectUp ==
  /\ Running /\ screen = "TopicSelect"
  /\ UNCHANGED wr
  /\ selected_topic' = IF selected_topic = 0 THEN 0 ELSE selected_topic - 1
  /\ UNCHANGED <<screen, prev_screen, input, cursor, review_scroll, topics,
                 topic_input, current_topic, in_edit_mode, selected_card, eng, disk,
                 error, saved, studying>>
  /\ Redraw

TopicSelectDown ==
  /\ Running /\ screen = "TopicSelect"
  /\ UNCHANGED wr
  /\ selected_topic' =
       LET last == IF Len(topics) = 0 THEN 0 ELSE Len(topics) - 1
       IN IF selected_topic + 1 < last THEN selected_topic + 1 ELSE last
  /\ UNCHANGED <<screen, prev_screen, input, cursor, review_scroll, topics,
                 topic_input, current_topic, in_edit_mode, selected_card, eng, disk,
                 error, saved, studying>>
  /\ Redraw

TopicSelectEnter ==
  /\ Running /\ screen = "TopicSelect"
  /\ UNCHANGED wr
  /\ topics # <<>>
  /\ IF selected_topic >= Len(topics) THEN Panic
     ELSE LET topic == topics[selected_topic + 1]
          IN /\ LoadEng(topic)
             /\ UNCHANGED <<prev_screen, input, cursor, review_scroll, topics,
                            selected_topic, topic_input, in_edit_mode, selected_card>>
             /\ IF LoadOk(topic)
                THEN /\ screen' = "MainMenu"
                     /\ UNCHANGED <<error, saved>>
                     /\ Redraw
                ELSE /\ UNCHANGED screen
                     /\ Fails(LoadError(topic))

TopicSelectCreate ==
  /\ Running /\ screen = "TopicSelect"
  /\ UNCHANGED wr
  /\ topic_input' = <<>>
  /\ cursor' = 0
  /\ screen' = "TopicCreate"
  /\ UNCHANGED <<prev_screen, input, review_scroll, topics, selected_topic,
                 current_topic, in_edit_mode, selected_card, eng, disk, error,
                 saved, studying>>
  /\ Redraw

\* ------------------------------------------------------ Screen::TopicCreate
TopicCreateEnter ==
  /\ Running /\ screen = "TopicCreate"
  /\ UNCHANGED wr
  /\ topic_input' = <<>>
  /\ IF topic_input # <<>>
     THEN /\ Len(topics) < MaxTopics
          /\ LoadEng(topic_input)
          /\ UNCHANGED <<prev_screen, input, cursor, review_scroll, selected_topic,
                         in_edit_mode, selected_card>>
          /\ IF LoadOk(topic_input)
             THEN /\ topics' = SortStrings(Append(topics, topic_input))
                  /\ screen' = "MainMenu"
                  /\ UNCHANGED <<error, saved>>
                  /\ Redraw
             ELSE /\ UNCHANGED <<topics, screen>>
                  /\ Fails(LoadError(topic_input))
     ELSE /\ screen' = "TopicSelect"
          /\ UNCHANGED <<prev_screen, input, cursor, review_scroll, topics,
                         selected_topic, current_topic, in_edit_mode, selected_card,
                         eng, disk, error, saved, studying>>
          /\ Redraw

TopicCreateEsc ==
  /\ Running /\ screen = "TopicCreate"
  /\ UNCHANGED wr
  /\ screen' = "TopicSelect"
  /\ UNCHANGED <<prev_screen, input, cursor, review_scroll, topics, selected_topic,
                 topic_input, current_topic, in_edit_mode, selected_card, eng, disk,
                 error, saved, studying>>
  /\ Redraw

TopicCreateText ==
  /\ Running /\ screen = "TopicCreate"
  /\ UNCHANGED wr
  /\ \E key \in TextKeys :
       /\ TextKeyInBound(topic_input, key)
       /\ LET r == TextEdit(topic_input, cursor, key)
          IN IF r.panic THEN Panic
             ELSE /\ topic_input' = r.buf
                  /\ cursor' = r.cursor
                  /\ UNCHANGED <<screen, prev_screen, input, review_scroll, topics,
                                 selected_topic, current_topic, in_edit_mode,
                                 selected_card, eng, disk, error, saved, studying>>
                  /\ Redraw

\* --------------------------------------------------------- Screen::MainMenu
MainMenuStudy ==
  /\ Running /\ screen = "MainMenu"
  /\ UNCHANGED wr
  /\ in_edit_mode' = FALSE
  /\ screen' = "Mode"
  /\ UNCHANGED <<prev_screen, input, cursor, review_scroll, topics, selected_topic,
                 topic_input, current_topic, selected_card, eng, disk, error, saved,
                 studying>>
  /\ Redraw

MainMenuEdit ==
  /\ Running /\ screen = "MainMenu"
  /\ UNCHANGED wr
  /\ in_edit_mode' = TRUE
  /\ screen' = "CardList"
  /\ UNCHANGED <<prev_screen, input, cursor, review_scroll, topics, selected_topic,
                 topic_input, current_topic, selected_card, eng, disk, error, saved,
                 studying>>
  /\ Redraw

MainMenuBack ==
  /\ Running /\ screen = "MainMenu"
  /\ UNCHANGED wr
  /\ eng' = NoEng
  /\ current_topic' = {}
  /\ studying' = FALSE
  /\ screen' = "TopicSelect"
  /\ UNCHANGED <<prev_screen, input, cursor, review_scroll, topics, selected_topic,
                 topic_input, in_edit_mode, selected_card, disk, error, saved>>
  /\ Redraw

\* --------------------------------------------------------- Screen::CardList
LastCard(e) == IF Len(e.questions) = 0 THEN 0 ELSE Len(e.questions) - 1

CardListUp ==
  /\ Running /\ screen = "CardList"
  /\ UNCHANGED wr
  /\ selected_card' = IF selected_card = 0 THEN 0 ELSE selected_card - 1
  /\ UNCHANGED <<screen, prev_screen, input, cursor, review_scroll, topics,
                 selected_topic, topic_input, current_topic, in_edit_mode, eng, disk,
                 error, saved, studying>>
  /\ Redraw

CardListDown ==
  /\ Running /\ screen = "CardList"
  /\ UNCHANGED wr
  /\ selected_card' =
       IF eng.loaded
       THEN (IF selected_card + 1 < LastCard(eng) THEN selected_card + 1 ELSE LastCard(eng))
       ELSE selected_card
  /\ UNCHANGED <<screen, prev_screen, input, cursor, review_scroll, topics,
                 selected_topic, topic_input, current_topic, in_edit_mode, eng, disk,
                 error, saved, studying>>
  /\ Redraw

\* 'e' (question = TRUE) and 'a' (question = FALSE)
CardListOpen(question) ==
  /\ Running /\ screen = "CardList"
  /\ UNCHANGED wr
  /\ eng.loaded /\ selected_card < Len(eng.questions)
  /\ eng' = [eng EXCEPT !.current = selected_card]
  /\ input' = IF question THEN eng.questions[selected_card + 1]
              ELSE eng.answers[selected_card + 1]
  /\ cursor' = Len(input')
  /\ screen' = IF question THEN "EditQuestion" ELSE "EditAnswer"
  /\ UNCHANGED <<prev_screen, review_scroll, topics, selected_topic, topic_input,
                 current_topic, in_edit_mode, selected_card, disk, error, saved,
                 studying>>
  /\ Redraw

CardListEditQuestion == CardListOpen(TRUE)

CardListEditAnswer == CardListOpen(FALSE)

\* Mutant of PushCard: order is not rebuilt.
PushCardStaleOrder(e) ==
  [e EXCEPT !.questions = Append(e.questions, <<>>),
            !.answers = Append(e.answers, <<>>),
            !.current = Len(e.questions)]

\* 'n': push a blank card
PushCard(e) ==
  LET n == Len(e.questions) + 1
  IN [e EXCEPT !.questions = Append(e.questions, <<>>),
               !.answers = Append(e.answers, <<>>),
               !.order = Identity(n),
               !.current = n - 1]

CardListNew ==
  /\ Running /\ screen = "CardList"
  /\ UNCHANGED wr
  /\ eng.loaded
  /\ Len(eng.questions) < MaxCards
  /\ eng' = PushCard(eng)
  /\ selected_card' = Len(eng.questions)
  /\ input' = <<>>
  /\ cursor' = 0
  /\ screen' = "EditQuestion"
  /\ UNCHANGED <<prev_screen, review_scroll, topics, selected_topic, topic_input,
                 current_topic, in_edit_mode, disk, error, saved, studying>>
  /\ Redraw

\* Mutant of RemoveCard: the answer stays.
RemoveCardQuestionOnly(e, sel) ==
  IF sel < Len(e.questions)
  THEN [e EXCEPT !.questions = RemoveAt(e.questions, sel),
                 !.order = Identity(Len(e.questions) - 1)]
  ELSE e

\* Mutant of RemoveCard: the last card is removed, whatever the selection.
RemoveCardLast(e, sel) ==
  IF sel < Len(e.questions)
  THEN [e EXCEPT !.questions = SubSeq(e.questions, 1, Len(e.questions) - 1),
                 !.answers = SubSeq(e.answers, 1, Len(e.answers) - 1),
                 !.order = Identity(Len(e.questions) - 1)]
  ELSE e

\* 'd': remove the selected card
RemoveCard(e, sel) ==
  IF sel < Len(e.questions)
  THEN [e EXCEPT !.questions = RemoveAt(e.questions, sel),
                 !.answers = RemoveAt(e.answers, sel),
                 !.order = Identity(Len(e.questions) - 1)]
  ELSE e

CardListDelete ==
  /\ Running /\ screen = "CardList"
  /\ UNCHANGED wr
  /\ eng.loaded
  /\ eng' = RemoveCard(eng, selected_card)
  /\ selected_card' =
       IF selected_card >= Len(eng'.questions) THEN LastCard(eng') ELSE selected_card
  /\ UNCHANGED <<screen, prev_screen, input, cursor, review_scroll, topics,
                 selected_topic, topic_input, current_topic, in_edit_mode, disk,
                 error, saved, studying>>
  /\ Redraw

IoError == [kind |-> "io"]

\* eng.persist_edits()? in a handler: both files written, or an I/O error at
\* the first or at the second write_atomic, which handle returns.
SaveKey ==
  /\ eng.loaded
  /\ UNCHANGED <<screen, prev_screen, input, cursor, review_scroll, topics,
                 selected_topic, topic_input, current_topic, in_edit_mode,
                 selected_card, eng, studying>>
  /\ \/ /\ disk' = PersistEdits(disk, eng)
        /\ UNCHANGED <<error, saved>>
        /\ Redraw
     \/ /\ disk' = disk
        /\ Fails(IoError)
     \/ /\ disk' = PersistQuestionsOnly(disk, eng)
        /\ Fails(IoError)

CardListSave ==
  /\ Running /\ screen = "CardList"
  /\ UNCHANGED wr
  /\ SaveKey

CardListBack ==
  /\ Running /\ screen = "CardList"
  /\ UNCHANGED wr
  /\ screen' = "MainMenu"
  /\ UNCHANGED <<prev_screen, input, cursor, review_scroll, topics, selected_topic,
                 topic_input, current_topic, in_edit_mode, selected_card, eng, disk,
                 error, saved, studying>>
  /\ Redraw

\* ------------------------------------------------------------- Screen::Mode
\* 'y' (mode = TRUE) and 'n' (mode = FALSE)
ModeKey(mode) ==
  /\ Running /\ screen = "Mode"
  /\ UNCHANGED wr
  /\ eng.loaded
  /\ \E p \in Shuffles(Len(eng.questions)) :
       /\ (~mode => p = Identity(Len(eng.questions)))
       /\ eng' = SetRandom(eng, mode, p)
  /\ studying' = TRUE
  /\ screen' = "Ask"
  /\ UNCHANGED <<prev_screen, input, cursor, review_scroll, topics, selected_topic,
                 topic_input, current_topic, in_edit_mode, selected_card, disk, error,
                 saved>>
  /\ Redraw

ModeYes == ModeKey(TRUE)

ModeNo == ModeKey(FALSE)

\* -------------------------------------------------------------- Screen::Ask
AskEnter ==
  /\ Running /\ screen = "Ask"
  /\ UNCHANGED wr
  /\ eng.loaded /\ HasCard(eng)
  /\ eng' = Record(eng, CardIdx(eng), input)
  /\ input' = <<>>
  /\ cursor' = 0
  /\ screen' = "Reveal"
  /\ UNCHANGED <<prev_screen, review_scroll, topics, selected_topic, topic_input,
                 current_topic, in_edit_mode, selected_card, disk, error, saved,
                 studying>>
  /\ Redraw

\* Ctrl+R on ask and on reveal, 'r' on done
ToReview(from) ==
  /\ Running /\ screen = from
  /\ UNCHANGED wr
  /\ screen' = "Review"
  /\ UNCHANGED <<prev_screen, input, cursor, review_scroll, topics, selected_topic,
                 topic_input, current_topic, in_edit_mode, selected_card, eng, disk,
                 error, saved, studying>>
  /\ Redraw

AskReview == ToReview("Ask")

\* The editing arms on the input buffer (ask, edit-question, edit-answer).
InputText(on) ==
  /\ Running /\ screen = on
  /\ UNCHANGED wr
  /\ \E key \in TextKeys :
       /\ TextKeyInBound(input, key)
       /\ LET r == TextEdit(input, cursor, key)
          IN IF r.panic THEN Panic
             ELSE /\ input' = r.buf
                  /\ cursor' = r.cursor
                  /\ UNCHANGED <<screen, prev_screen, review_scroll, topics,
                                 selected_topic, topic_input, current_topic,
                                 in_edit_mode, selected_card, eng, disk, error, saved,
                                 studying>>
                  /\ Redraw

AskText == InputText("Ask")

\* ----------------------------------------------------------- Screen::Reveal
RevealNext ==
  /\ Running /\ screen = "Reveal"
  /\ UNCHANGED wr
  /\ eng.loaded
  /\ eng' = EngNext(eng)
  /\ IF EngDone(eng')
     THEN screen' = "Done" /\ input' = input
     ELSE screen' = "Ask" /\ input' = <<>>
  /\ UNCHANGED <<prev_screen, cursor, review_scroll, topics, selected_topic,
                 topic_input, current_topic, in_edit_mode, selected_card, disk, error,
                 saved, studying>>
  /\ Redraw

RevealReview == ToReview("Reveal")

\* Ctrl+E (question = TRUE) and Ctrl+A (question = FALSE)
RevealOpen(question) ==
  /\ Running /\ screen = "Reveal"
  /\ UNCHANGED wr
  /\ eng.loaded /\ HasCard(eng)
  /\ input' = IF question THEN eng.questions[CardIdx(eng) + 1]
              ELSE eng.answers[CardIdx(eng) + 1]
  /\ cursor' = Len(input')
  /\ screen' = IF question THEN "EditQuestion" ELSE "EditAnswer"
  /\ UNCHANGED <<prev_screen, review_scroll, topics, selected_topic, topic_input,
                 current_topic, in_edit_mode, selected_card, eng, disk, error, saved,
                 studying>>
  /\ Redraw

RevealEditQuestion == RevealOpen(TRUE)

RevealEditAnswer == RevealOpen(FALSE)

\* ------------------------------------ Screen::EditQuestion, Screen::EditAnswer
EditReturn == IF in_edit_mode THEN "CardList" ELSE "Reveal"

\* The card field Enter overwrites: the one at index eng.current.
CommitIndex(e) == e.current

Commit(e, question, text) ==
  IF question
  THEN [e EXCEPT !.questions[CommitIndex(e) + 1] = text]
  ELSE [e EXCEPT !.answers[CommitIndex(e) + 1] = text]

EditEnter(question) ==
  /\ Running /\ screen = IF question THEN "EditQuestion" ELSE "EditAnswer"
  /\ UNCHANGED wr
  /\ IF eng.loaded /\ CommitIndex(eng) >= Len(eng.questions) THEN Panic
     ELSE /\ eng' = IF eng.loaded THEN Commit(eng, question, input) ELSE eng
          /\ screen' = EditReturn
          /\ UNCHANGED <<prev_screen, input, cursor, review_scroll, topics,
                         selected_topic, topic_input, current_topic, in_edit_mode,
                         selected_card, disk, error, saved, studying>>
          /\ Redraw

EditEsc(question) ==
  /\ Running /\ screen = IF question THEN "EditQuestion" ELSE "EditAnswer"
  /\ UNCHANGED wr
  /\ screen' = EditReturn
  /\ UNCHANGED <<prev_screen, input, cursor, review_scroll, topics, selected_topic,
                 topic_input, current_topic, in_edit_mode, selected_card, eng, disk,
                 error, saved, studying>>
  /\ Redraw

EditQuestionEnter == EditEnter(TRUE)

EditQuestionEsc == EditEsc(TRUE)

EditQuestionSave ==
  /\ Running /\ screen = "EditQuestion"
  /\ UNCHANGED wr
  /\ SaveKey

EditQuestionText == InputText("EditQuestion")

EditAnswerEnter == EditEnter(FALSE)

EditAnswerEsc == EditEsc(FALSE)

EditAnswerSave ==
  /\ Running /\ screen = "EditAnswer"
  /\ UNCHANGED wr
  /\ SaveKey

EditAnswerText == InputText("EditAnswer")

\* ----------------------------------------------------------- Screen::Review
ReviewUp ==
  /\ Running /\ screen = "Review"
  /\ UNCHANGED wr
  /\ review_scroll' = IF review_scroll = 0 THEN 0 ELSE review_scroll - 1
  /\ UNCHANGED <<screen, prev_screen, input, cursor, topics, selected_topic,
                 topic_input, current_topic, in_edit_mode, selected_card, eng, disk,
                 error, saved, studying>>
  /\ Redraw

ReviewDown ==
  /\ Running /\ screen = "Review"
  /\ UNCHANGED wr
  /\ review_scroll < MaxScroll
  /\ review_scroll' = review_scroll + 1
  /\ UNCHANGED <<screen, prev_screen, input, cursor, topics, selected_topic,
                 topic_input, current_topic, in_edit_mode, selected_card, eng, disk,
                 error, saved, studying>>
  /\ Redraw

\* Esc and Ctrl+B
ReviewBack ==
  /\ Running /\ screen = "Review"
  /\ UNCHANGED wr
  /\ screen' = IF eng.loaded /\ EngDone(eng) THEN "Done" ELSE "Ask"
  /\ UNCHANGED <<prev_screen, input, cursor, review_scroll, topics, selected_topic,
                 topic_input, current_topic, in_edit_mode, selected_card, eng, disk,
                 error, saved, studying>>
  /\ Redraw

\* ------------------------------------------------------------- Screen::Done
DoneReview == ToReview("Done")

\* ------------------------------------------------------ Screen::ConfirmQuit
\* 'y': handle returns Ok(true), run_app breaks and main exits.
ConfirmQuitYes ==
  /\ Running /\ screen = "ConfirmQuit"
  /\ UNCHANGED wr
  /\ status' = "quit"
  /\ UNCHANGED <<screen, prev_screen, input, cursor, review_scroll, topics,
                 selected_topic, topic_input, current_topic, in_edit_mode,
                 selected_card, eng, disk, error, studying>>
  /\ saved' = SavesSession'

ConfirmQuitNo ==
  /\ Running /\ screen = "ConfirmQuit"
  /\ UNCHANGED wr
  /\ screen' = IF prev_screen # "None" THEN prev_screen ELSE screen
  /\ prev_screen' = "None"
  /\ UNCHANGED <<input, cursor, review_scroll, topics, selected_topic, topic_input,
                 current_topic, in_edit_mode, selected_card, eng, disk, error, saved,
                 studying>>
  /\ Redraw

\* -------------------------------------------------------------- write_atomic
\* The call write_atomic(path, lines) followed step by step.  wr.fs holds the
\* files of the directory, wr.pos the bytes of the text written so far, and
\* wr.old the destination's content when the call began (history).
WriteUnchanged ==
  UNCHANGED <<screen, prev_screen, input, cursor, review_scroll, topics,
              selected_topic, topic_input, current_topic, in_edit_mode,
              selected_card, eng, disk, status, error, saved, studying>>

\* File::create(&tmp): the temporary file exists and is empty, or Err.
WriteCreate ==
  /\ wr.pc = "create"
  /\ \/ wr' = [wr EXCEPT !.pc = "write",
                          !.fs[WithExtensionTmp(wr.path)] = File(<<>>)]
     \/ wr' = [wr EXCEPT !.pc = "failed"]
  /\ WriteUnchanged

\* writeln!(f, "{l}") for each line, a byte at a time: the file is not
\* buffered, so a failure leaves what was written before it.
WriteByte ==
  /\ wr.pc = "write"
  /\ wr.pos < Len(FileText(wr.lines))
  /\ \/ wr' = [wr EXCEPT !.pos = wr.pos + 1,
                          !.fs[WithExtensionTmp(wr.path)].text =
                             Append(@, FileText(wr.lines)[wr.pos + 1])]
     \/ wr' = [wr EXCEPT !.pc = "failed"]
  /\ WriteUnchanged

\* fs::rename(tmp, path) once every line is written, or Err.
WriteRename ==
  /\ wr.pc = "write"
  /\ wr.pos = Len(FileText(wr.lines))
  /\ \/ wr' = [wr EXCEPT !.pc = "done",
                          !.fs = Rename(wr.fs, WithExtensionTmp(wr.path), wr.path)]
     \/ wr' = [wr EXCEPT !.pc = "failed"]
  /\ WriteUnchanged

\* The process is killed between two steps of the call.
WriteCrash ==
  /\ wr.pc \in {"create", "write"}
  /\ wr' = [wr EXCEPT !.pc = "crashed"]
  /\ WriteUnchanged

\* ------------------------------------------------------------ specification
TopicKeys ==
  \/ TopicSelectUp \/ TopicSelectDown \/ TopicSelectEnter \/ TopicSelectCreate
  \/ TopicCreateEnter \/ TopicCreateEsc

MainMenuKeys == MainMenuStudy \/ MainMenuEdit \/ MainMenuBack

CardListKeys ==
  \/ CardListUp \/ CardListDown \/ CardListEditQuestion \/ CardListEditAnswer
  \/ CardListNew \/ CardListDelete \/ CardListBack

EditKeys == EditQuestionEnter \/ EditQuestionEsc \/ EditAnswerEnter \/ EditAnswerEsc

StudyKeys ==
  \/ ModeYes \/ ModeNo
  \/ AskEnter \/ AskReview
  \/ RevealNext \/ RevealReview \/ RevealEditQuestion \/ RevealEditAnswer
  \/ ReviewUp \/ ReviewDown \/ ReviewBack
  \/ DoneReview

\* The controller driven by the navigation, card-list, edit-commit and study
\* keys and by the mouse.  The keys that edit a text buffer, the save keys and
\* Ctrl+Q are not part of this environment: a buffer holds what the handlers
\* put into it, and the topics directory stays as it was at startup.
Next == TopicKeys \/ MainMenuKeys \/ CardListKeys \/ EditKeys \/ StudyKeys \/ MouseClick

Spec == Init /\ [][Next]_vars

\* A study session from startup to done, on a topics directory that holds one
\* topic of n cards, 1 <= n <= MaxDeck: the topic is opened, study is chosen,
\* mode-select is answered, and the user then types answers and presses Enter
\* on ask and on reveal.
StudyDisk(n) ==
  S("t") :> [q |-> FileText([i \in 1..n |-> S("a")]),
             a |-> FileText([i \in 1..n |-> S("b")])]

InitStudy == \E n \in 1..MaxDeck : StartUp(StudyDisk(n)) /\ wr = NoWrite

NextStudy ==
  \/ TopicSelectEnter \/ MainMenuStudy
  \/ ModeYes \/ ModeNo
  \/ AskText \/ AskEnter
  \/ RevealNext

SpecStudy == InitStudy /\ [][NextStudy]_vars

\* The card-list editor from startup, on a topics directory that holds one
\* topic of one card: the topic is opened and reopened, cards are selected,
\* appended, deleted, edited with the text keys, and saved.
EditDisk == S("t") :> [q |-> FileText(<<S("a")>>), a |-> FileText(<<S("b")>>)]

InitEdit == StartUp(EditDisk) /\ wr = NoWrite

SaveKeys == CardListSave \/ EditQuestionSave \/ EditAnswerSave

NextEdit ==
  \/ TopicSelectEnter
  \/ MainMenuEdit \/ MainMenuBack
  \/ CardListKeys
  \/ EditKeys \/ EditQuestionText \/ EditAnswerText
  \/ SaveKeys

SpecEdit == InitEdit /\ [][NextEdit]_vars

\* One call of write_atomic(path, lines): the destination is one of the two
\* deck files with some earlier content, the temporary name is free or holds
\* what a failed call left, and lines is any deck column within the bounds.
Strings == UNION {[1..n -> Chars] : n \in 0..MaxStr}

Columns == UNION {[1..n -> Strings] : n \in 0..MaxCards}

OldTexts == {<<>>, FileText(<<S("a"), S("a")>>)}

InitWrite ==
  /\ StartUp(InitDisk)
  /\ \E path \in {"questions.txt", "answers.txt"}, lines \in Columns,
        old \in OldTexts, stale \in {Absent, File(<<"a">>)} :
       wr = [pc |-> "create", path |-> path, lines |-> lines, pos |-> 0,
             old |-> old,
             fs |-> [f \in FileNames |->
                       IF f = path THEN File(old)
                       ELSE IF f = WithExtensionTmp(path) THEN stale
                       ELSE Absent]]

NextWrite == WriteCreate \/ WriteByte \/ WriteRename \/ WriteCrash

SpecWrite == InitWrite /\ [][NextWrite]_vars

\* Topic selection and creation from startup: names are typed with the text
\* keys, topics are created, opened and left again.
NextTopics == TopicKeys \/ TopicCreateText \/ MainMenuBack

SpecTopics == Init /\ [][NextTopics]_vars

\* The controller of Spec with Ctrl+Q and the two answers of confirm-quit.
QuitKeys == CtrlQ \/ ConfirmQuitYes \/ ConfirmQuitNo

NextQuit == Next \/ QuitKeys

SpecQuit == Init /\ [][NextQuit]_vars

\* ------------------------------------------------------------------ claims
\* order holds each of 0..n-1 exactly once.
IsPermutation(order, n) ==
  /\ Len(order) = n
  /\ {order[i] : i \in 1..n} = 0..(n - 1)
  /\ \A i, j \in 1..n : order[i] = order[j] => i = j

\* C1: in every reachable state with an engine loaded, questions and answers
\* have the same length.
C1_ParallelLengths == eng.loaded => Len(eng.questions) = Len(eng.answers)

\* C1 witness: the first card was deleted, a blank card was appended and a
\* response was recorded.
C1_Witness ==
  /\ eng.loaded
  /\ eng.questions = <<S("b"), <<>>>>
  /\ eng.answers = <<S("d"), <<>>>>
  /\ DOMAIN eng.responses # {}

\* C2: in every reachable state with an engine loaded, order is a permutation
\* of exactly the indices 0..len(questions)-1.
C2_OrderIsPermutation == eng.loaded => IsPermutation(eng.order, Len(eng.questions))

\* C2 witness: on card-list, after a delete left one card and order [0].
C2_Witness ==
  /\ screen = "CardList"
  /\ eng.loaded
  /\ eng.questions = <<S("b")>>
  /\ eng.order = <<0>>

\* C3: the mode-select answer sets order to the identity (sequential) or to a
\* permutation of 0..n-1 (random), resets current to 0 and leaves questions,
\* answers and the response map unchanged.
C3_SetMode ==
  [][(screen = "Mode" /\ screen' = "Ask") =>
       /\ eng'.current = 0
       /\ eng'.questions = eng.questions
       /\ eng'.answers = eng.answers
       /\ eng'.responses = eng.responses
       /\ (~eng'.random => eng'.order = Identity(Len(eng.questions)))
       /\ (eng'.random => IsPermutation(eng'.order, Len(eng.questions)))]_vars

\* C3 witness: just after a random mode-select that reversed a two-card deck
\* whose card 0 had been answered before: only card 0 has a response, and in
\* this order it is not the first card.
C3_Witness ==
  /\ screen = "Ask"
  /\ studying
  /\ eng.random
  /\ eng.order = <<1, 0>>
  /\ eng.current = 0
  /\ DOMAIN eng.responses = {0}

\* C4: in every reachable state with an engine loaded, 0 <= current <=
\* len(order), so progress = current / max(len(order), 1) is at most 1.
C4_CurrentInRange ==
  eng.loaded =>
    /\ eng.current <= Len(eng.order)
    /\ ProgressNum(eng) <= ProgressDen(eng)

\* C5: within a study session on a non-empty deck, current never decreases,
\* and the session is complete exactly when current = len(order), that is
\* when progress is exactly 1.
C5_SessionProgress ==
  /\ [](studying /\ Len(eng.questions) > 0 =>
          /\ EngDone(eng) <=> eng.current = Len(eng.order)
          /\ EngDone(eng) <=> ProgressNum(eng) = ProgressDen(eng))
  /\ [][studying /\ studying' /\ Len(eng.questions) > 0 =>
          eng'.current >= eng.current]_vars

\* C5 witness: a session on two cards that has reached done.
C5_Witness ==
  /\ studying
  /\ screen = "Done"
  /\ Len(eng.order) = 2
  /\ eng.current = 2

\* C6: Enter on ask with a current card records the input buffer under the
\* deck index order[current], replaces an earlier response for that index,
\* leaves the other responses unchanged, clears the input and shows reveal.
C6_AskEnterRecords ==
  [][(screen = "Ask" /\ screen' = "Reveal") =>
       LET idx == eng.order[eng.current + 1]
       IN /\ DOMAIN eng'.responses = (DOMAIN eng.responses) \cup {idx}
          /\ eng'.responses[idx] = input
          /\ \A k \in (DOMAIN eng.responses) \ {idx} :
               eng'.responses[k] = eng.responses[k]
          /\ input' = <<>>]_vars

\* C6 witness: on reveal in the reversed order, first position: the response
\* is stored under deck index 1, not under position 0, and is not empty.
C6_Witness ==
  /\ screen = "Reveal"
  /\ eng.loaded
  /\ eng.order = <<1, 0>>
  /\ eng.current = 0
  /\ DOMAIN eng.responses = {1}
  /\ eng.responses[1] # <<>>

\* C7: every key of the response map is an index of the deck, so the map
\* never has more keys than the deck has cards.
C7_ResponseKeysValid ==
  eng.loaded =>
    /\ \A k \in DOMAIN eng.responses : k < Len(eng.questions)
    /\ Cardinality(DOMAIN eng.responses) <= Len(eng.questions)

\* The topic's two files hold different numbers of non-blank lines.
Mismatched(d, topic) ==
  Len(ReadNonemptyLines(d[topic].q)) # Len(ReadNonemptyLines(d[topic].a))

\* C9: Enter on a topic whose files hold different numbers of non-blank
\* lines ends with the mismatch error carrying both counts; the engine slot
\* and the screen stay as they were, and no engine is ever loaded from such a
\* pair of files.
C9_MismatchFails ==
  /\ [][(/\ screen = "TopicSelect"
         /\ screen' \in {"TopicSelect", "MainMenu"}
         /\ selected_topic' = selected_topic
         /\ selected_topic < Len(topics)
         /\ Mismatched(disk, topics[selected_topic + 1])) =>
          LET f == disk[topics[selected_topic + 1]]
          IN /\ status' = "error"
             /\ error' = [kind |-> "Mismatched counts",
                          questions |-> Len(ReadNonemptyLines(f.q)),
                          answers |-> Len(ReadNonemptyLines(f.a))]
             /\ eng' = eng
             /\ current_topic' = current_topic
             /\ screen' = "TopicSelect"]_vars
  /\ [](eng.loaded => ~Mismatched(disk, eng.topic))
  /\ [](status = "error" => screen \notin {"MainMenu", "Mode", "Ask", "Reveal", "Review", "Done"})

\* C9 witness: the process has ended with the error for 3 questions and 2
\* answers, no engine loaded.
C9_Witness ==
  /\ status = "error"
  /\ error = [kind |-> "Mismatched counts", questions |-> 3, answers |-> 2]
  /\ ~eng.loaded
  /\ screen = "TopicSelect"

\* The deck indices shown at the first k positions of the study order.
Shown(e, k) == {e.order[i] : i \in 1..k}

\* C10: in a session where the user only answers and presses Enter, ask shows
\* position current of the order with exactly the cards of the earlier
\* positions answered, each Enter on reveal moves one position on, and done is
\* reached at position n with the session complete and every card answered.
C10_StudyRun ==
  /\ [](studying =>
          LET n == Len(eng.questions)
          IN /\ screen \in {"Ask", "Reveal", "Done"}
             /\ IsPermutation(eng.order, n)
             /\ screen = "Ask" =>
                  /\ eng.current < n
                  /\ DOMAIN eng.responses = Shown(eng, eng.current)
                  /\ Cardinality(DOMAIN eng.responses) = eng.current
             /\ screen = "Reveal" =>
                  /\ eng.current < n
                  /\ DOMAIN eng.responses = Shown(eng, eng.current + 1)
             /\ screen = "Done" =>
                  /\ eng.current = n
                  /\ EngDone(eng)
                  /\ DOMAIN eng.responses = 0..(n - 1))
  /\ [][(studying /\ screen = "Reveal" /\ screen' # "Reveal") =>
          /\ eng'.current = eng.current + 1
          /\ eng'.order = eng.order
          /\ screen' = IF eng'.current = Len(eng.order) THEN "Done" ELSE "Ask"]_vars
  /\ [][(studying /\ screen = "Ask" /\ screen' # "Ask") =>
          /\ screen' = "Reveal"
          /\ eng'.current = eng.current
          /\ eng'.order = eng.order]_vars

\* C10 witness: a random session on three cards in the order 2, 0, 1 has
\* reached done after three pairs.
C10_Witness ==
  /\ studying
  /\ screen = "Done"
  /\ eng.random
  /\ eng.order = <<2, 0, 1>>
  /\ eng.current = 3

\* C8: after a save that succeeds, a fresh from_files on the topic's two
\* files yields the questions and answers that were in memory at the save.
C8_RoundTrip ==
  [][(SaveKeys /\ status' = "running") =>
       LET f == disk'[eng.topic]
           r == FromFiles(eng.topic, f.q, f.a)
       IN /\ r.ok
          /\ r.eng.questions = eng.questions
          /\ r.eng.answers = eng.answers]_vars

\* Card s of the deck (qs, as) is gone from (qs2, as2) and the other cards
\* are in their old relative order.
RemovedAt(qs, as, qs2, as2, s) ==
  /\ Len(qs2) = Len(qs) - 1
  /\ Len(as2) = Len(as) - 1
  /\ \A i \in 1..Len(qs2) :
       /\ qs2[i] = IF i <= s THEN qs[i] ELSE qs[i + 1]
       /\ as2[i] = IF i <= s THEN as[i] ELSE as[i + 1]

\* C11: the delete key on card-list with a selection s < len(questions)
\* removes exactly position s from questions and answers, rebuilds order as
\* the identity over the new length and leaves the selection at most
\* max(0, new_len - 1); deleting the only card leaves an empty deck and
\* selection 0.
C11_DeleteSelected ==
  [][(CardListDelete /\ selected_card < Len(eng.questions)) =>
       /\ RemovedAt(eng.questions, eng.answers, eng'.questions, eng'.answers,
                    selected_card)
       /\ eng'.order = [i \in 1..(Len(eng.questions) - 1) |-> i - 1]
       /\ selected_card' <= (IF Len(eng'.questions) = 0 THEN 0
                             ELSE Len(eng'.questions) - 1)
       /\ (Len(eng.questions) = 1 =>
             /\ eng'.questions = <<>> /\ eng'.answers = <<>> /\ eng'.order = <<>>
             /\ selected_card' = 0)
       /\ screen' = "CardList"
       /\ status' = "running"]_vars

\* The first card of a two-card deck has been deleted, then the only card
\* left: the deck is empty on card-list.
C11_Witness ==
  /\ screen = "CardList" /\ status = "running"
  /\ eng.loaded /\ eng.topic = S("t")
  /\ eng.questions = <<>> /\ eng.answers = <<>> /\ eng.order = <<>>
  /\ selected_card = 0

\* Everything the user sees or the engine holds, apart from the screen and
\* the previous-screen slot, is left as it was.
QuitFrame ==
  /\ input' = input /\ cursor' = cursor /\ review_scroll' = review_scroll
  /\ selected_topic' = selected_topic /\ selected_card' = selected_card
  /\ topic_input' = topic_input /\ topics' = topics
  /\ current_topic' = current_topic
  /\ in_edit_mode' = in_edit_mode
  /\ eng' = eng /\ disk' = disk
  /\ status' = "running"

\* C12: on every screen S other than confirm-quit, Ctrl+Q switches to
\* confirm-quit, remembers S and changes nothing else (S's own handler does
\* not run); answering 'no' on confirm-quit entered from S returns to S and
\* changes nothing else, so input, cursor, review scroll, selections, the
\* edit-origin flag and the engine are as before Ctrl+Q.
C12_QuitNoRestores ==
  /\ [][(CtrlQ /\ screen # "ConfirmQuit") =>
          /\ screen' = "ConfirmQuit"
          /\ prev_screen' = screen
          /\ QuitFrame]_vars
  /\ [][(ConfirmQuitNo /\ prev_screen \in Screens \ {"ConfirmQuit"}) =>
          /\ screen' = prev_screen
          /\ QuitFrame]_vars

\* Ctrl+Q has been pressed on review with a scrolled transcript of a loaded
\* deck: 'no' is the next answer.
C12_Witness ==
  /\ screen = "ConfirmQuit" /\ status = "running"
  /\ prev_screen = "Review" /\ review_scroll = 1
  /\ eng.loaded /\ DOMAIN eng.responses # {}

\* C13: while the screen is confirm-quit, the only event that changes the
\* screen is the 'no' answer ('yes' ends the loop on confirm-quit); no other
\* key and no mouse click leaves confirm-quit.
C13_ConfirmQuitClosed ==
  [][(screen = "ConfirmQuit" /\ screen' # "ConfirmQuit") => ConfirmQuitNo]_vars

\* C14: at every point of write_atomic(path, lines), whatever step fails or
\* is cut short by a crash, the destination holds its complete old content or
\* the complete new content.
C14_DestinationWhole ==
  wr.pc # "idle" => wr.fs[wr.path] \in {File(wr.old), File(FileText(wr.lines))}

\* The call was cut short with part of a two-line text in the temporary
\* file, and the destination still holds its old, different content.
C14_Witness ==
  /\ wr.pc \in {"crashed", "failed"}
  /\ Len(wr.lines) = 2
  /\ 0 < wr.pos /\ wr.pos < Len(FileText(wr.lines))
  /\ wr.fs[WithExtensionTmp(wr.path)] = File(SubSeq(FileText(wr.lines), 1, wr.pos))
  /\ wr.old # FileText(wr.lines)
  /\ wr.fs[wr.path] = File(wr.old)

\* C15: when persist_edits fails on a save key (card-list, edit-question,
\* edit-answer), the loop keeps running on the same screen with the deck,
\* order, current, responses and the input buffer unchanged.
C15_SaveFailureKeepsRunning ==
  [][(SaveKeys /\ error' = IoError) =>
       /\ status' = "running"
       /\ screen' = screen
       /\ eng' = eng
       /\ input' = input]_vars

\* C16: Enter on topic-create with an empty or blank (whitespace only) name
\* is rejected: the screen becomes topic-select, no engine is created, the
\* topic list is unchanged and no directory or file is created.
C16_BlankNameRejected ==
  [][(TopicCreateEnter /\ Trim(topic_input) = <<>>) =>
       /\ screen' = "TopicSelect"
       /\ eng' = eng
       /\ topics' = topics
       /\ disk' = disk]_vars

\* C17: whenever the screen is card-list, the card selection index lies in
\* [0, max(0, card_count - 1)] for the loaded deck.
C17_SelectionInRange ==
  (screen = "CardList" /\ eng.loaded) =>
    selected_card <= (IF Len(eng.questions) = 0 THEN 0 ELSE Len(eng.questions) - 1)

\* C18: on every text-entry screen the cursor is within the screen's buffer:
\* 0 <= cursor <= len(input) on ask, edit-question and edit-answer, and
\* 0 <= cursor <= len(topic_input) on topic-create.
C18_CursorInBuffer ==
  /\ screen \in {"Ask", "EditQuestion", "EditAnswer"} => cursor <= Len(input)
  /\ screen = "TopicCreate" => cursor <= Len(topic_input)

\* C19: when an edit screen entered from reveal (the study flow: the
\* edit-origin flag is off) is committed with Enter, the field overwritten is
\* that of the card shown on reveal, index order[current], and every other
\* question and answer is unchanged.
C19_CommitShownCard ==
  [][((EditQuestionEnter \/ EditAnswerEnter) /\ ~in_edit_mode
        /\ eng.loaded /\ eng.current < Len(eng.order)) =>
       LET shown == eng.order[eng.current + 1] + 1
       IN IF screen = "EditQuestion"
          THEN /\ eng'.questions = [eng.questions EXCEPT ![shown] = input]
               /\ eng'.answers = eng.answers
          ELSE /\ eng'.answers = [eng.answers EXCEPT ![shown] = input]
               /\ eng'.questions = eng.questions]_vars

EditScreens == {"EditQuestion", "EditAnswer"}

\* C20: Enter and Esc on an edit screen go to card-list if and only if the
\* edit screen was entered from card-list, and to reveal if it was entered
\* from reveal: the screen they return to is the origin when the edit screen
\* is entered, stays so while the edit screen is shown, and is where Enter
\* and Esc go.
C20_ReturnToOrigin ==
  /\ [][(screen = "Reveal" /\ screen' \in EditScreens) =>
          EditReturn' = "Reveal"]_vars
  /\ [][(screen = "CardList" /\ screen' \in EditScreens) =>
          EditReturn' = "CardList"]_vars
  /\ [][(screen \in EditScreens /\ screen' \in EditScreens) =>
          EditReturn' = EditReturn]_vars
  /\ [][(EditQuestionEnter \/ EditQuestionEsc \/ EditAnswerEnter \/ EditAnswerEsc)
          /\ status' = "running" =>
          screen' = EditReturn]_vars

\* C21: whatever point persist_edits is interrupted at, the questions file
\* and the answers file of the topic are both the old content or both the
\* new content.
C21_SaveAllOrNothing ==
  [][SaveKeys =>
       \/ disk'[eng.topic] = disk[eng.topic]
       \/ disk'[eng.topic] =
            [q |-> FileText(eng.questions), a |-> FileText(eng.answers)]]_vars

\* C22: after a successful persist_edits, from_files on the topic's two
\* files succeeds: the question and answer counts read back are equal.
C22_SavedDeckLoads ==
  [][(SaveKeys /\ status' = "running") =>
       FromFiles(eng.topic, disk'[eng.topic].q, disk'[eng.topic].a).ok]_vars

\* C23: on main-menu, card-list, mode-select, ask, reveal, review,
\* edit-question, edit-answer and done an engine is loaded.
C23_EngineLoaded ==
  screen \in {"MainMenu", "CardList", "Mode", "Ask", "Reveal", "Review",
              "EditQuestion", "EditAnswer", "Done"} => eng.loaded

\* C24: when the session is complete (confirm-quit was entered from done,
\* with at least one response recorded) and the user answers 'yes', the
\* session transcript is saved before the process exits.
C24_QuitSavesSession ==
  [][(ConfirmQuitYes /\ prev_screen = "Done" /\ eng.loaded
        /\ DOMAIN eng.responses # {}) => saved']_vars

\* C25: whenever the screen is ask with an engine loaded, the session is not
\* complete: current < len(order), so current_card() returns a card.
C25_AskHasCard ==
  (screen = "Ask" /\ eng.loaded) => eng.current < Len(eng.order)

\* C26: the previous-screen slot never holds confirm-quit.
C26_PrevNotConfirmQuit == prev_screen # "ConfirmQuit"

\* C27: whenever ask is entered from mode-select, the input buffer is empty
\* and the cursor is 0.
C27_AskStartsEmpty ==
  [][(screen = "Mode" /\ screen' = "Ask") => (input' = <<>> /\ cursor' = 0)]_vars
====
